---- MODULE Spec2Model ----
(***************************************************************************)
(* Model of the real-time-agents command relay.                            *)
(*                                                                         *)
(*  web/app.py    : the session store and the action lifecycle handlers    *)
(*                  (start_session, end_session, events,                   *)
(*                  agent_action_webhook, get_pending_actions, action_ack) *)
(*  agent/agent.py: the conversation store and the chat_stream generator   *)
(*                                                                         *)
(* Python dicts are functions from keys to values; an insertion-ordered    *)
(* dict of actions is a sequence of such functions with unique action_id.  *)
(* Strings that are concatenated (chat text) are sequences of tokens.      *)
(***************************************************************************)
EXTENDS Naturals, Integers, Sequences, FiniteSets, TLC

\* ---------------------------------------------------------------- bounds
\* MaxOps caps the number of state-changing requests served in one behaviour,
\* MaxClock the number of instants of the clock that are told apart.
MaxOps == 4
MaxClock == 1
\* MaxToolCalls caps the tool invocations of one model response, MaxChunks
\* the chunks of one streamed model response.
MaxToolCalls == 2
MaxChunks == 2
\* MaxTasks caps the request threads the web app serves concurrently.
MaxTasks == 2
\* MaxChats caps the /chat and further /chat/stream requests the agent serves
\* next to the first generator.
MaxChats == 1

\* ---------------------------------------------------------------- state
VARIABLES
    sessions,      \* web/app.py: sessions, session_id -> session dict
    now,           \* the wall clock read by datetime.now(timezone.utc)
    session_uuids, \* how many uuid4 values start_session has drawn
    action_uuids,  \* how many uuid4 values agent_action_webhook has drawn
    resp,          \* the last request served by the web app and its response
    ended,         \* history: the session ids whose /session/end succeeded
    executed_acks, \* history: the action ids an "executed" ack was applied to
    ops            \* history: how many state-changing requests were served

store_vars == <<sessions, now, session_uuids, action_uuids, resp, ended,
                executed_acks, ops>>

VARIABLES
    conversations,    \* agent/agent.py: conversations, session_id -> list object
    lists,            \* the Python list objects the agent holds, by identity
    langfuse_enabled, \* agent/agent.py: langfuse_enabled, fixed at start-up
    turn              \* the chat_stream request under study and its generator

agent_vars == <<conversations, lists, langfuse_enabled, turn>>

VARIABLES
    tasks,    \* web/app.py: the request threads in flight, each at a line
    gateway   \* web/app.py: the agent_stream_proxy generator in flight

task_vars == <<tasks, gateway>>

vars == <<store_vars, agent_vars, task_vars>>

\* ---------------------------------------------------------------- values
\* uuid4 values are numbered in the order they are drawn: the ids issued by
\* the store are 1, 2, ...  NoId is a request that carries no id
\* (data.get('session_id') is None), UnknownId an id that is never issued.
NoId == 0
UnknownId == MaxOps + 1
SessionIdInputs == {NoId, UnknownId} \cup 1..session_uuids
ActionIdInputs == {UnknownId} \cup 1..action_uuids

\* None is the empty tuple, a present optional value t is <<t>>.
None == <<>>
Some(t) == <<t>>

\* request.json status values of /webhook/action-ack; "absent" is a body
\* without the key, which data.get('status', 'executed') defaults.
StatusInputs == {"absent", "executed", "failed", "pending", "cancelled"}
Statuses == {"pending", "executed", "failed"}
ActionTypes == {"click_button"}
ButtonTexts == {<<"Send Test Event">>}
EventInputs == {"page_view", "button_clicked"}
PageInputs == {"", "home"}

\* d[k] = v on a Python dict d
SetKey(d, k, v) == [x \in DOMAIN d \cup {k} |-> IF x = k THEN v ELSE d[x]]

\* del d[k]
DelKey(d, k) == [x \in DOMAIN d \ {k} |-> d[x]]

\* action_id in actions
HasAction(actions, action_id) ==
    \E i \in 1..Len(actions) : actions[i]["action_id"] = action_id

\* the position of actions[action_id] in the insertion-ordered dict
ActionIndex(actions, action_id) ==
    CHOOSE i \in 1..Len(actions) : actions[i]["action_id"] = action_id

\* [action for action in actions.values() if action['status'] == 'pending']
IsPending(action) == action["status"] = "pending"
Pending(actions) == SelectSeq(actions, IsPending)

\* ---------------------------------------------------------------- init
StoreInit ==
    /\ langfuse_enabled = FALSE
    /\ turn = [pc |-> "idle", frames |-> <<>>]
    /\ conversations = << >>
    /\ lists = << >>
    /\ sessions = << >>
    /\ now = 0
    /\ session_uuids = 0
    /\ action_uuids = 0
    /\ resp = [op |-> "none"]
    /\ ended = {}
    /\ executed_acks = {}
    /\ ops = 0
    /\ tasks = << >>
    /\ gateway = [pc |-> "idle"]

\* ---------------------------------------------------------------- handlers
\* Time passes between requests. A handler reads datetime.now() within one
\* instant of this clock.
Tick ==
    /\ now < MaxClock
    /\ now' = now + 1
    /\ UNCHANGED <<sessions, session_uuids, action_uuids, resp, ended, executed_acks, ops, agent_vars, task_vars>>

\* the session dict built by start_session
NewSession(session_id, t) ==
    [session_id |-> session_id,
     started_at |-> t,
     last_activity |-> t,
     events_count |-> 0,
     pages_viewed |-> <<>>,
     actions |-> <<>>,
     last_agent_action |-> None]

\* POST /session/start
start_session ==
    /\ ops < MaxOps
    /\ LET session_id == session_uuids + 1 IN
        /\ sessions' = SetKey(sessions, session_id, NewSession(session_id, now))
        /\ session_uuids' = session_uuids + 1
        /\ resp' = [op |-> "start_session", code |-> 200, status |-> "success",
                    session_id |-> session_id]
    /\ ops' = ops + 1
    /\ UNCHANGED <<now, action_uuids, ended, executed_acks, agent_vars, task_vars>>

\* a /session/end that reports success and keeps the session
end_session_keeps(session_id) ==
    IF session_id \notin DOMAIN sessions
    THEN /\ resp' = [op |-> "end_session", session_id |-> session_id,
                     code |-> 404, status |-> "error"]
         /\ UNCHANGED <<sessions, now, session_uuids, action_uuids, ended, executed_acks, ops, agent_vars, task_vars>>
    ELSE /\ ops < MaxOps
         /\ ended' = ended \cup {session_id}
         /\ resp' = [op |-> "end_session", session_id |-> session_id,
                     code |-> 200, status |-> "success"]
         /\ ops' = ops + 1
         /\ UNCHANGED <<sessions, now, session_uuids, action_uuids, executed_acks, agent_vars, task_vars>>

\* POST /session/end
end_session(session_id) ==
    IF session_id \notin DOMAIN sessions
    THEN /\ resp' = [op |-> "end_session", session_id |-> session_id,
                     code |-> 404, status |-> "error"]
         /\ UNCHANGED <<sessions, now, session_uuids, action_uuids, ended, executed_acks, ops, agent_vars, task_vars>>
    ELSE /\ ops < MaxOps
         /\ sessions' = DelKey(sessions, session_id)
         /\ ended' = ended \cup {session_id}
         /\ resp' = [op |-> "end_session", session_id |-> session_id,
                     code |-> 200, status |-> "success"]
         /\ ops' = ops + 1
         /\ UNCHANGED <<now, session_uuids, action_uuids, executed_acks, agent_vars, task_vars>>

\* the session dict after /events recorded one event at t
RecordEvent(session, event, page, t) ==
    LET s1 == [session EXCEPT !["events_count"] = @ + 1,
                              !["last_activity"] = t]
    IN IF event = "page_view" /\ page # ""
       THEN [s1 EXCEPT !["pages_viewed"] = Append(@, page)]
       ELSE s1

\* an /events handler that creates the session it does not find
events_upsert(session_id, event, page) ==
    /\ ops < MaxOps
    /\ sessions' = SetKey(sessions, session_id,
           RecordEvent(IF session_id \in DOMAIN sessions THEN sessions[session_id]
                       ELSE NewSession(session_id, now), event, page, now))
    /\ ops' = ops + 1
    /\ resp' = [op |-> "events", session_id |-> session_id,
                code |-> 200, status |-> "success"]
    /\ UNCHANGED <<now, session_uuids, action_uuids, ended, executed_acks, agent_vars, task_vars>>

\* POST /events
events(session_id, event, page) ==
    /\ IF session_id \in DOMAIN sessions
       THEN /\ ops < MaxOps
            /\ sessions' = [sessions EXCEPT
                               ![session_id] = RecordEvent(@, event, page, now)]
            /\ ops' = ops + 1
       ELSE UNCHANGED <<sessions, ops>>
    /\ resp' = [op |-> "events", session_id |-> session_id,
                code |-> 200, status |-> "success"]
    /\ UNCHANGED <<now, session_uuids, action_uuids, ended, executed_acks, agent_vars, task_vars>>

\* the action dict built by agent_action_webhook
NewAction(action_id, type, payload, t) ==
    [action_id |-> action_id,
     type |-> type,
     payload |-> payload,
     status |-> "pending",
     created_at |-> t]

\* a store that files the action under every live session
CreateActionEverywhere(store, session_id, action, t) ==
    [s \in DOMAIN store |->
        [store[s] EXCEPT !["actions"] = Append(@, action),
                         !["last_agent_action"] = Some(t)]]

\* sessions[session_id]['actions'][action_id] = action
\* sessions[session_id]['last_agent_action'] = t
CreateAction(store, session_id, action, t) ==
    [store EXCEPT ![session_id] =
        [@ EXCEPT !["actions"] = Append(@, action),
                  !["last_agent_action"] = Some(t)]]

\* a webhook that issues an action id without checking the session
agent_action_request_lenient(session_id, type, payload) ==
    /\ ops < MaxOps
    /\ LET action_id == action_uuids + 1 IN
        /\ sessions' = IF session_id \in DOMAIN sessions
                       THEN CreateAction(sessions, session_id,
                                NewAction(action_id, type, payload, now), now)
                       ELSE sessions
        /\ action_uuids' = action_uuids + 1
        /\ resp' = [op |-> "agent_action", session_id |-> session_id,
                    code |-> 200, status |-> "received",
                    action_id |-> action_id]
    /\ ops' = ops + 1
    /\ UNCHANGED <<now, session_uuids, ended, executed_acks>>

\* POST /webhook/agent-action, as the web app serves it
agent_action_request(session_id, type, payload) ==
    IF session_id = NoId \/ session_id \notin DOMAIN sessions
    THEN /\ resp' = [op |-> "agent_action", session_id |-> session_id,
                     code |-> 400, status |-> "error",
                     message |-> "Invalid session"]
         /\ UNCHANGED <<sessions, now, session_uuids, action_uuids, ended, executed_acks, ops>>
    ELSE /\ ops < MaxOps
         /\ LET action_id == action_uuids + 1 IN
             /\ sessions' = CreateAction(sessions, session_id,
                               NewAction(action_id, type, payload, now), now)
             /\ action_uuids' = action_uuids + 1
             /\ resp' = [op |-> "agent_action", session_id |-> session_id,
                         code |-> 200, status |-> "received",
                         action_id |-> action_id]
         /\ ops' = ops + 1
         /\ UNCHANGED <<now, session_uuids, ended, executed_acks>>

\* POST /webhook/agent-action from a client of the web app
agent_action_webhook(session_id, type, payload) ==
    /\ agent_action_request(session_id, type, payload)
    /\ UNCHANGED <<agent_vars, task_vars>>
   

\* the body of the response of GET /webhook/pending-actions
PendingActions(store, session_id) ==
    IF session_id = NoId \/ session_id \notin DOMAIN store
    THEN <<>>
    ELSE Pending(store[session_id]["actions"])

\* GET /webhook/pending-actions
get_pending_actions(session_id) ==
    /\ resp' = [op |-> "pending_actions", session_id |-> session_id,
                code |-> 200, status |-> "success",
                actions |-> PendingActions(sessions, session_id)]
    /\ UNCHANGED <<sessions, now, session_uuids, action_uuids, ended, executed_acks, ops, agent_vars, task_vars>>

\* actions[action_id]['status'] = status
\* actions[action_id]['executed_at'] = t
Acknowledge(action, status, t) ==
    SetKey(SetKey(action, "status", status), "executed_at", t)

\* data.get('status', 'executed')
AckStatus(status_arg) == IF status_arg = "absent" THEN "executed" ELSE status_arg

\* POST /webhook/action-ack
action_ack(session_id, action_id, status_arg) ==
    LET status == AckStatus(status_arg)
        req == [op |-> "action_ack", session_id |-> session_id,
                action_id |-> action_id]
    IN
    IF session_id \notin DOMAIN sessions
    THEN /\ resp' = [code |-> 400, status |-> "error",
                     message |-> "Invalid session"] @@ req
         /\ UNCHANGED <<sessions, now, session_uuids, action_uuids, ended, executed_acks, ops, agent_vars, task_vars>>
    ELSE IF ~HasAction(sessions[session_id]["actions"], action_id)
    THEN /\ resp' = [code |-> 404, status |-> "error",
                     message |-> "Unknown action"] @@ req
         /\ UNCHANGED <<sessions, now, session_uuids, action_uuids, ended, executed_acks, ops, agent_vars, task_vars>>
    ELSE /\ ops < MaxOps
         /\ LET i == ActionIndex(sessions[session_id]["actions"], action_id) IN
            sessions' = [sessions EXCEPT ![session_id]["actions"][i] =
                            Acknowledge(@, status, now)]
         /\ resp' = [code |-> 200, status |-> "ok"] @@ req
         /\ executed_acks' = IF status = "executed"
                             THEN executed_acks \cup {action_id}
                             ELSE executed_acks
         /\ ops' = ops + 1
         /\ UNCHANGED <<now, session_uuids, action_uuids, ended, agent_vars, task_vars>>

\* request.json payload values of /webhook/agent-action
PayloadInputs == {[button_text |-> b] : b \in ButtonTexts}

StoreNext ==
    \/ Tick
    \/ start_session
    \/ \E session_id \in SessionIdInputs :
          end_session(session_id)
    \/ \E session_id \in SessionIdInputs, event \in EventInputs, page \in PageInputs :
          events(session_id, event, page)
    \/ \E session_id \in SessionIdInputs, type \in ActionTypes,
          payload \in PayloadInputs :
          agent_action_webhook(session_id, type, payload)
    \/ \E session_id \in SessionIdInputs :
          get_pending_actions(session_id)
    \/ \E session_id \in SessionIdInputs, action_id \in ActionIdInputs,
          status \in StatusInputs :
          action_ack(session_id, action_id, status)

StoreSpec == StoreInit /\ [][StoreNext]_vars

\* ================================================================ agent
\* conversations[session_id] = chat_history[-20:]
HistoryCap == 20

\* the session id of a request without one: data.get('session_id', 'default');
\* 'default' is no uuid4 and so never a key of the session store
DefaultSession == MaxOps + 2
AgentSessionInputs == {1, DefaultSession}

\* data.get('message', '')
MessageInputs == {<<"click the send test event button">>}

\* data.get('webhook_url', ''): absent, the web app's /webhook/agent-action,
\* or an endpoint that is not the web app
WebhookInputs == {"", "agent-action", "elsewhere"}

\* response.tool_calls entries: name and args
ToolCallInputs ==
    { [name |-> "click_button", args |-> [button_text |-> <<"Send Test Event">>]],
      [name |-> "click_button", args |-> << >>],
      [name |-> "get_weather", args |-> << >>] }

\* chunk.content of one streamed chunk: a string, or a list of content blocks
\* of which a block is a dict (with or without 'text') or another object;
\* a block that is not a dict is written [str |-> s], s being str(block)
ChunkInputs ==
    { [kind |-> "str", text |-> <<>>],
      [kind |-> "str", text |-> <<"Hello">>],
      [kind |-> "list", blocks |-> <<>>],
      [kind |-> "list", blocks |-> <<[type |-> "text", text |-> <<"Hi">>]>>],
      [kind |-> "list", blocks |-> <<[type |-> "tool_use"]>>],
      [kind |-> "list", blocks |-> <<[str |-> <<"Hi">>]>>],
      [kind |-> "list", blocks |-> <<[str |-> <<>>]>>],
      [kind |-> "list", blocks |-> <<[type |-> "text", text |-> <<>>],
                                     [type |-> "text", text |-> <<"there">>]>>] }

ErrorText == <<"upstream error">>

HumanMessage(content) == [role |-> "user", content |-> content]
AIMessage(content) == [role |-> "assistant", content |-> content]
SystemMessage == [role |-> "system", content |-> <<"system prompt">>]

\* s[:n], a window that keeps the oldest entries
FirstN(s, n) == IF Len(s) <= n THEN s ELSE SubSeq(s, 1, n)

\* s[-n:]
LastN(s, n) == IF Len(s) <= n THEN s ELSE SubSeq(s, Len(s) - n + 1, Len(s))

\* the identity of a list object created now
NewList(heap) ==
    CHOOSE i \in 1..(Cardinality(DOMAIN heap) + 1) :
        /\ i \notin DOMAIN heap
        /\ \A j \in 1..(i - 1) : j \in DOMAIN heap

\* the list objects still referenced by conversations or by the generator
Referenced(convs, t) ==
    {convs[k] : k \in DOMAIN convs} \cup
    (IF "chat_history" \in DOMAIN t THEN {t["chat_history"]} ELSE {})

\* the list objects the /chat request threads hold as chat_history
TaskRefs(ts) ==
    {ts[i]["chat_history"] :
        i \in {j \in 1..Len(ts) : "chat_history" \in DOMAIN ts[j]}}

CollectFor(heap, convs, t, ts) ==
    [i \in DOMAIN heap \cap (Referenced(convs, t) \cup TaskRefs(ts)) |-> heap[i]]

Collect(heap, convs, t) == CollectFor(heap, convs, t, tasks)

\* the frames of the stream, as the JSON objects of the data: lines
ChunkFrame(content) == [chunk |-> content]
ActionFrame(button_text) == [action |-> "click_button", button_text |-> button_text]
DoneFrame(session_id) == [done |-> TRUE, session_id |-> session_id]
ErrorFrame(message) == [error |-> message]

\* tool_args.get('button_text', '')
ButtonText(tool_args) ==
    IF "button_text" \in DOMAIN tool_args THEN tool_args["button_text"] ELSE <<>>

\* f"Done! I've clicked the \"{tool_calls_made[0]}\" button for you."
Confirmation(tool_calls_made) ==
    <<"Done! I've clicked the \"">> \o tool_calls_made[1] \o <<"\" button for you.">>

\* the text the streaming loop takes from one chunk.content
ChunkText(content) ==
    IF content["kind"] = "str" THEN content["text"]
    ELSE IF Len(content["blocks"]) > 0
    THEN LET block == content["blocks"][1] IN
         \* block.get('text', '') if isinstance(block, dict) else str(block)
         IF "str" \in DOMAIN block THEN block["str"]
         ELSE IF "text" \in DOMAIN block THEN block["text"] ELSE <<>>
    ELSE <<>>

Idle == [pc |-> "idle", frames |-> <<>>]

\* the generators of /chat/stream responses: slot 0 is turn, the first one of
\* the behaviour; a later request is served by a thread of its own in tasks
Gens == {0} \cup {i \in 1..Len(tasks) : tasks[i]["kind"] = "chat_stream"}
Gen(g) == IF g = 0 THEN turn ELSE tasks[g]
SetGen(g, t) ==
    IF g = 0
    THEN turn' = t /\ tasks' = tasks
    ELSE turn' = turn /\ tasks' = [tasks EXCEPT ![g] = t]

\* POST /chat/stream, lines 146-169: the request is parsed and
\* chat_history = conversations.setdefault(session_id, []). The request is
\* served whenever it arrives, also while the generator of an earlier one is
\* suspended or after it has closed
chat_stream(session_id, message, webhook_url) ==
    /\ turn["pc"] = "idle" \/ Len(tasks) < MaxChats
    /\ LET known == session_id \in DOMAIN conversations
           ref == IF known THEN conversations[session_id] ELSE NewList(lists)
           heap == IF known THEN lists ELSE SetKey(lists, ref, <<>>)
           convs == IF known THEN conversations
                    ELSE SetKey(conversations, session_id, ref)
           t == [pc |-> "messages",
                 session_id |-> session_id,
                 message |-> message,
                 webhook_url |-> webhook_url,
                 chat_history |-> ref,
                 history0 |-> heap[ref],
                 full_response |-> <<>>,
                 tool_calls_made |-> <<>>,
                 model_calls |-> 0,
                 frames |-> <<>>]
       IN /\ IF turn["pc"] = "idle"
             THEN turn' = t /\ tasks' = tasks
             ELSE turn' = turn
                  /\ tasks' = Append(tasks, [kind |-> "chat_stream"] @@ t)
          /\ conversations' = convs
          /\ lists' = CollectFor(heap, convs, turn', tasks')
    /\ UNCHANGED <<langfuse_enabled, store_vars, gateway>>

\* lines 172-187: messages = [system_message] + chat_history +
\* [HumanMessage(content=message)], from the list object the request holds
\* as it is by now
build_messages(g) ==
    /\ g \in Gens /\ Gen(g)["pc"] = "messages"
    /\ SetGen(g, [pc |-> "invoke",
                  messages |-> <<SystemMessage>> \o lists[Gen(g)["chat_history"]]
                                   \o <<HumanMessage(Gen(g)["message"])>>] @@ Gen(g))
    /\ UNCHANGED <<conversations, lists, langfuse_enabled, store_vars, gateway>>

\* response = llm_with_tools.invoke(messages) returned tool_calls
invoke(g, tool_calls) ==
    /\ g \in Gens /\ Gen(g)["pc"] = "invoke"
    /\ SetGen(g, [pc |-> IF Len(tool_calls) > 0 THEN "dispatch" ELSE "stream_open",
                  tool_calls |-> tool_calls,
                  next_call |-> 1,
                  chunks |-> 0,
                  model_calls |-> Gen(g)["model_calls"] + 1] @@ Gen(g))
    /\ UNCHANGED <<conversations, lists, langfuse_enabled, store_vars, gateway>>

\* the model call, the opening of the stream or the stream itself raised
model_raise(g) ==
    /\ g \in Gens /\ Gen(g)["pc"] \in {"invoke", "stream_open", "stream"}
    /\ SetGen(g, [pc |-> "error",
                  model_calls |-> IF Gen(g)["pc"] = "stream"
                                  THEN Gen(g)["model_calls"]
                                  ELSE Gen(g)["model_calls"] + 1] @@ Gen(g))
    /\ UNCHANGED <<conversations, lists, langfuse_enabled, store_vars, gateway>>

\* the head of one iteration of: for tool_call in response.tool_calls
\* (lines 199-205): a click_button call is appended to tool_calls_made
dispatch_tool_call(g) ==
    /\ g \in Gens /\ Gen(g)["pc"] = "dispatch"
    /\ LET t == Gen(g)
           tool_call == t["tool_calls"][t["next_call"]]
           last == t["next_call"] = Len(t["tool_calls"])
           button_text == ButtonText(tool_call["args"])
       IN SetGen(g, IF tool_call["name"] = "click_button"
                    THEN [pc |-> IF t["webhook_url"] # "" THEN "post" ELSE "emit",
                          tool_calls_made |-> Append(t["tool_calls_made"],
                                                     button_text)] @@ t
                    ELSE [pc |-> IF last THEN "confirm" ELSE "dispatch",
                          next_call |-> t["next_call"] + 1] @@ t)
    /\ UNCHANGED <<conversations, lists, langfuse_enabled, store_vars, gateway>>

\* http_requests.post(webhook_url, json=..., timeout=5) in its try/except
\* (lines 208-220); delivered: whether the POST reached its endpoint, which
\* is the web app's /webhook/agent-action or some other server
webhook_post(g, delivered) ==
    /\ g \in Gens /\ Gen(g)["pc"] = "post"
    /\ LET t == Gen(g) IN
        /\ SetGen(g, [pc |-> "emit"] @@ t)
        /\ IF delivered /\ t["webhook_url"] = "agent-action"
           THEN LET tool_call == t["tool_calls"][t["next_call"]] IN
                agent_action_request(t["session_id"], "click_button",
                    [button_text |-> ButtonText(tool_call["args"])])
           ELSE UNCHANGED store_vars
    /\ UNCHANGED <<conversations, lists, langfuse_enabled, gateway>>

\* yield the action frame (line 223), the end of the iteration
emit_action(g) ==
    /\ g \in Gens /\ Gen(g)["pc"] = "emit"
    /\ LET t == Gen(g)
           tool_call == t["tool_calls"][t["next_call"]]
           last == t["next_call"] = Len(t["tool_calls"])
       IN SetGen(g, [pc |-> IF last THEN "confirm" ELSE "dispatch",
                     next_call |-> t["next_call"] + 1,
                     frames |-> Append(t["frames"],
                                   ActionFrame(ButtonText(tool_call["args"])))] @@ t)
    /\ UNCHANGED <<conversations, lists, langfuse_enabled, store_vars, gateway>>

\* a confirmation chunk for every dispatched invocation
confirm_each(g) ==
    /\ g \in Gens /\ Gen(g)["pc"] = "confirm"
    /\ LET t == Gen(g) IN
       SetGen(g, [pc |-> IF Len(t["tool_calls_made"]) > 0
                         THEN "confirmed" ELSE "history",
                  frames |-> t["frames"] \o
                      [i \in 1..Len(t["tool_calls_made"]) |->
                          ChunkFrame(Confirmation(<<t["tool_calls_made"][i]>>))]]
                 @@ t)
    /\ UNCHANGED <<conversations, lists, langfuse_enabled, store_vars, gateway>>

\* if tool_calls_made: yield the confirmation chunk (lines 226-228)
confirm(g) ==
    /\ g \in Gens /\ Gen(g)["pc"] = "confirm"
    /\ LET t == Gen(g) IN
       SetGen(g, IF Len(t["tool_calls_made"]) > 0
                 THEN [pc |-> "confirmed",
                       frames |-> Append(t["frames"],
                           ChunkFrame(Confirmation(t["tool_calls_made"])))] @@ t
                 ELSE [pc |-> "history"] @@ t)
    /\ UNCHANGED <<conversations, lists, langfuse_enabled, store_vars, gateway>>

\* full_response = confirmation (line 229), once the generator is resumed
confirm_assign(g) ==
    /\ g \in Gens /\ Gen(g)["pc"] = "confirmed"
    /\ SetGen(g, [pc |-> "history",
                  full_response |-> Confirmation(Gen(g)["tool_calls_made"])]
                 @@ Gen(g))
    /\ UNCHANGED <<conversations, lists, langfuse_enabled, store_vars, gateway>>

\* llm_with_tools.stream(messages): the second request to the model
stream_open(g) ==
    /\ g \in Gens /\ Gen(g)["pc"] = "stream_open"
    /\ SetGen(g, [pc |-> "stream",
                  model_calls |-> Gen(g)["model_calls"] + 1] @@ Gen(g))
    /\ UNCHANGED <<conversations, lists, langfuse_enabled, store_vars, gateway>>

\* if chunk.content:
Truthy(content) ==
    IF content["kind"] = "str" THEN Len(content["text"]) > 0
    ELSE Len(content["blocks"]) > 0

\* one iteration of: for chunk in llm_with_tools.stream(messages)
stream_chunk(g, content) ==
    /\ g \in Gens /\ Gen(g)["pc"] = "stream"
    /\ Gen(g)["chunks"] < MaxChunks
    /\ LET t == Gen(g)
           text == IF Truthy(content) THEN ChunkText(content) ELSE <<>>
       IN SetGen(g, IF Len(text) > 0
                    THEN [chunks |-> t["chunks"] + 1,
                          full_response |-> t["full_response"] \o text,
                          frames |-> Append(t["frames"], ChunkFrame(text))] @@ t
                    ELSE [chunks |-> t["chunks"] + 1] @@ t)
    /\ UNCHANGED <<conversations, lists, langfuse_enabled, store_vars, gateway>>

\* the stream is exhausted
stream_end(g) ==
    /\ g \in Gens /\ Gen(g)["pc"] = "stream"
    /\ SetGen(g, [pc |-> "history"] @@ Gen(g))
    /\ UNCHANGED <<conversations, lists, langfuse_enabled, store_vars, gateway>>

\* line 249: chat_history.extend([HumanMessage, AIMessage]), in place on the
\* list object the generator holds
extend_history(g) ==
    /\ g \in Gens /\ Gen(g)["pc"] = "history"
    /\ LET t == Gen(g) IN
        /\ lists' = [lists EXCEPT ![t["chat_history"]] =
                        @ \o <<HumanMessage(t["message"]),
                               AIMessage(t["full_response"])>>]
        /\ SetGen(g, [pc |-> "store"] @@ t)
    /\ UNCHANGED <<conversations, langfuse_enabled, store_vars, gateway>>

\* line 250: conversations[session_id] = chat_history[-20:], a new list made
\* of the held list as it is by now
store_history(g) ==
    /\ g \in Gens /\ Gen(g)["pc"] = "store"
    /\ LET t == Gen(g)
           copy == NewList(lists)
           convs == SetKey(conversations, t["session_id"], copy)
       IN /\ SetGen(g, [pc |-> "trace"] @@ t)
          /\ conversations' = convs
          /\ lists' = CollectFor(SetKey(lists, copy,
                                     LastN(lists[t["chat_history"]], HistoryCap)),
                                 convs, turn', tasks')
    /\ UNCHANGED <<langfuse_enabled, store_vars, gateway>>

\* if langfuse_enabled: the span, the generation and the flush returned
trace(g) ==
    /\ g \in Gens /\ Gen(g)["pc"] = "trace"
    /\ SetGen(g, [pc |-> "done"] @@ Gen(g))
    /\ UNCHANGED <<conversations, lists, langfuse_enabled, store_vars, gateway>>

\* if langfuse_enabled: the span, the generation or the flush raised
trace_raise(g) ==
    /\ g \in Gens /\ Gen(g)["pc"] = "trace"
    /\ langfuse_enabled
    /\ SetGen(g, [pc |-> "error"] @@ Gen(g))
    /\ UNCHANGED <<conversations, lists, langfuse_enabled, store_vars, gateway>>

\* the generator has returned: its closure no longer holds chat_history
Closed(t, frame) ==
    LET u == [pc |-> "closed", frames |-> Append(t["frames"], frame)] @@ t
    IN [k \in DOMAIN u \ {"chat_history"} |-> u[k]]

\* yield the done frame
send_done(g) ==
    /\ g \in Gens /\ Gen(g)["pc"] = "done"
    /\ SetGen(g, Closed(Gen(g), DoneFrame(Gen(g)["session_id"])))
    /\ lists' = CollectFor(lists, conversations, turn', tasks')
    /\ UNCHANGED <<conversations, langfuse_enabled, store_vars, gateway>>

\* an except clause that swallows the exception and yields nothing
send_error_silent(g) ==
    /\ g \in Gens /\ Gen(g)["pc"] = "error"
    /\ SetGen(g, [k \in DOMAIN Gen(g) \ {"chat_history"} |->
                     IF k = "pc" THEN "closed" ELSE Gen(g)[k]])
    /\ lists' = CollectFor(lists, conversations, turn', tasks')
    /\ UNCHANGED <<conversations, langfuse_enabled, store_vars, gateway>>

\* except Exception as e: yield the error frame
send_error(g) ==
    /\ g \in Gens /\ Gen(g)["pc"] = "error"
    /\ SetGen(g, Closed(Gen(g), ErrorFrame(ErrorText)))
    /\ lists' = CollectFor(lists, conversations, turn', tasks')
    /\ UNCHANGED <<conversations, langfuse_enabled, store_vars, gateway>>

\* POST /chat/reset: conversations.pop(session_id, None)
reset_chat(session_id) ==
    /\ conversations' = IF session_id \in DOMAIN conversations
                        THEN DelKey(conversations, session_id)
                        ELSE conversations
    /\ lists' = Collect(lists, conversations', turn)
    /\ UNCHANGED <<langfuse_enabled, turn, store_vars, task_vars>>

\* the tool_calls of a model response
ToolCallSeqs == UNION {[1..n -> ToolCallInputs] : n \in 0..MaxToolCalls}

\* histories left by earlier turns: a first exchange, and a full window
OldText(i) == [j \in 1..i |-> "old"]
OldMessage(i) == IF i % 2 = 1 THEN HumanMessage(OldText(i)) ELSE AIMessage(OldText(i))
InitHistories == {[i \in 1..n |-> OldMessage(i)] : n \in {2, HistoryCap}}

\* the web app serves one session; the agent holds no conversation or the
\* conversation of that session
TurnInit ==
    /\ sessions = SetKey(<< >>, 1, NewSession(1, 0))
    /\ now = 0
    /\ session_uuids = 1
    /\ action_uuids = 0
    /\ resp = [op |-> "start_session", code |-> 200, status |-> "success",
               session_id |-> 1]
    /\ ended = {}
    /\ executed_acks = {}
    /\ ops = 1
    /\ tasks = << >>
    /\ gateway = [pc |-> "idle"]
    /\ langfuse_enabled \in BOOLEAN
    /\ turn = Idle
    /\ \/ conversations = << >> /\ lists = << >>
       \/ \E h \in InitHistories, session_id \in AgentSessionInputs :
            /\ conversations = SetKey(<< >>, session_id, 1)
            /\ lists = SetKey(<< >>, 1, h)

\* one /chat/stream request, the first of the behaviour
TurnBegin ==
    /\ turn["pc"] = "idle"
    /\ \E session_id \in AgentSessionInputs, message \in MessageInputs,
          webhook_url \in WebhookInputs :
          chat_stream(session_id, message, webhook_url)

\* the steps of the generator, which the WSGI server iterates until it returns
TurnStep ==
    \/ \E g \in Gens : build_messages(g)
    \/ \E g \in Gens, tool_calls \in ToolCallSeqs : invoke(g, tool_calls)
    \/ \E g \in Gens : model_raise(g)
    \/ \E g \in Gens : dispatch_tool_call(g)
    \/ \E g \in Gens, delivered \in BOOLEAN : webhook_post(g, delivered)
    \/ \E g \in Gens : emit_action(g)
    \/ \E g \in Gens : confirm(g)
    \/ \E g \in Gens : confirm_assign(g)
    \/ \E g \in Gens : stream_open(g)
    \/ \E g \in Gens, content \in ChunkInputs : stream_chunk(g, content)
    \/ \E g \in Gens : stream_end(g)
    \/ \E g \in Gens : extend_history(g)
    \/ \E g \in Gens : store_history(g)
    \/ \E g \in Gens : trace(g)
    \/ \E g \in Gens : trace_raise(g)
    \/ \E g \in Gens : send_done(g)
    \/ \E g \in Gens : send_error(g)

Reset == \E session_id \in AgentSessionInputs : reset_chat(session_id)

\* a chat_stream turn with /chat/reset requests served concurrently
TurnNext == TurnBegin \/ TurnStep \/ Reset
TurnSpec == TurnInit /\ [][TurnNext]_vars

\* the same with every step of the generator taken once it is enabled: the
\* model call, the stream and the webhook POST return or raise, and the
\* server iterates the response to its end
FairTurnSpec == TurnSpec /\ WF_vars(TurnStep)

\* a chat_stream turn with no other request of the agent in flight
SoloNext == TurnBegin \/ TurnStep
SoloSpec == TurnInit /\ [][SoloNext]_vars

\* ---------------------------------------------------------------- /chat
\* POST /chat is served on a thread of its own, next to the generator of a
\* /chat/stream response and to /chat/reset; a task is one such thread.

ChatSystemMessage == [role |-> "system", content |-> <<"chat system prompt">>]

\* response.content of llm.invoke(messages)
ResponseInputs == {<<"answer">>}

\* the thread has returned its response and no longer holds chat_history
ChatAnswer(task, code) ==
    LET u == [pc |-> "done", code |-> code] @@ task
    IN [k \in DOMAIN u \ {"chat_history"} |-> u[k]]

\* POST /chat, lines 76-95: the request is parsed and
\* chat_history = conversations.setdefault(session_id, [])
chat(session_id, message) ==
    /\ Len(tasks) < MaxChats
    /\ LET known == session_id \in DOMAIN conversations
           ref == IF known THEN conversations[session_id] ELSE NewList(lists)
           heap == IF known THEN lists ELSE SetKey(lists, ref, <<>>)
           convs == IF known THEN conversations
                    ELSE SetKey(conversations, session_id, ref)
           task == [kind |-> "chat", pc |-> "messages",
                    session_id |-> session_id,
                    message |-> message,
                    chat_history |-> ref]
       IN /\ tasks' = Append(tasks, task)
          /\ conversations' = convs
          /\ lists' = CollectFor(heap, convs, turn, tasks')
    /\ UNCHANGED <<langfuse_enabled, turn, store_vars, gateway>>

\* lines 98-108: messages = [system_message, *chat_history,
\* HumanMessage(content=message)], from the list object the thread holds as
\* it is by now
chat_messages(i) ==
    /\ tasks[i]["kind"] = "chat" /\ tasks[i]["pc"] = "messages"
    /\ tasks' = [tasks EXCEPT ![i] =
          [pc |-> "invoke",
           messages |-> <<ChatSystemMessage>> \o lists[@["chat_history"]]
                            \o <<HumanMessage(@["message"])>>] @@ @]
    /\ UNCHANGED <<store_vars, agent_vars, gateway>>

\* response = llm.invoke(messages); response_text = response.content
chat_invoke(i, response_text) ==
    /\ tasks[i]["kind"] = "chat" /\ tasks[i]["pc"] = "invoke"
    /\ tasks' = [tasks EXCEPT ![i] =
          [pc |-> "history", response_text |-> response_text] @@ @]
    /\ UNCHANGED <<store_vars, agent_vars, gateway>>

\* except Exception: the model call (or, with Langfuse, the span around it
\* or the flush after the history update) raised; the response is a 500
chat_raise(i) ==
    /\ tasks[i]["kind"] = "chat"
    /\ \/ tasks[i]["pc"] = "invoke"
       \/ tasks[i]["pc"] = "flush" /\ langfuse_enabled
    /\ tasks' = [tasks EXCEPT ![i] = ChatAnswer(@, 500)]
    /\ lists' = CollectFor(lists, conversations, turn, tasks')
    /\ UNCHANGED <<conversations, langfuse_enabled, turn, store_vars, gateway>>

\* line 129: chat_history.extend([HumanMessage, AIMessage]), in place on the
\* list object the thread holds
chat_extend_history(i) ==
    /\ tasks[i]["kind"] = "chat" /\ tasks[i]["pc"] = "history"
    /\ lists' = [lists EXCEPT ![tasks[i]["chat_history"]] =
                    @ \o <<HumanMessage(tasks[i]["message"]),
                           AIMessage(tasks[i]["response_text"])>>]
    /\ tasks' = [tasks EXCEPT ![i] = [pc |-> "store"] @@ @]
    /\ UNCHANGED <<conversations, langfuse_enabled, turn, store_vars, gateway>>

\* line 130: conversations[session_id] = chat_history[-20:], a new list made
\* of the held list as it is by now
chat_store_history(i) ==
    /\ tasks[i]["kind"] = "chat" /\ tasks[i]["pc"] = "store"
    /\ LET task == tasks[i]
           copy == NewList(lists)
           convs == SetKey(conversations, task["session_id"], copy)
       IN /\ tasks' = [tasks EXCEPT ![i] = [pc |-> "flush"] @@ @]
          /\ conversations' = convs
          /\ lists' = CollectFor(SetKey(lists, copy,
                                     LastN(lists[task["chat_history"]], HistoryCap)),
                                 convs, turn, tasks')
    /\ UNCHANGED <<langfuse_enabled, turn, store_vars, gateway>>

\* lines 132-135: the flush returned, and the response
chat_respond(i) ==
    /\ tasks[i]["kind"] = "chat" /\ tasks[i]["pc"] = "flush"
    /\ tasks' = [tasks EXCEPT ![i] = ChatAnswer(@, 200)]
    /\ lists' = CollectFor(lists, conversations, turn, tasks')
    /\ UNCHANGED <<conversations, langfuse_enabled, turn, store_vars, gateway>>

ChatStep ==
    \/ \E i \in 1..Len(tasks) : chat_messages(i)
    \/ \E i \in 1..Len(tasks), response_text \in ResponseInputs :
          chat_invoke(i, response_text)
    \/ \E i \in 1..Len(tasks) : chat_raise(i)
    \/ \E i \in 1..Len(tasks) : chat_extend_history(i)
    \/ \E i \in 1..Len(tasks) : chat_store_history(i)
    \/ \E i \in 1..Len(tasks) : chat_respond(i)

\* the requests of one client session that the agent serves concurrently:
\* /chat/stream whenever it arrives, without a webhook, answered by the model
\* with text or with one click; /chat; /chat/reset. Tracing is off
AgentSession == 1
AgentToolCallSeqs ==
    { <<>>,
      <<[name |-> "click_button", args |-> [button_text |-> <<"Send Test Event">>]]>> }
AgentChunkInputs == {[kind |-> "str", text |-> <<"Hello">>]}

AgentInit ==
    /\ TurnInit
    /\ langfuse_enabled = FALSE
    /\ \A session_id \in DOMAIN conversations : session_id = AgentSession

StreamBegin ==
    \E message \in MessageInputs : chat_stream(AgentSession, message, "")

AgentStep ==
    \/ \E g \in Gens : build_messages(g)
    \/ \E g \in Gens, tool_calls \in AgentToolCallSeqs : invoke(g, tool_calls)
    \/ \E g \in Gens : model_raise(g)
    \/ \E g \in Gens : dispatch_tool_call(g)
    \/ \E g \in Gens : emit_action(g)
    \/ \E g \in Gens : confirm(g)
    \/ \E g \in Gens : confirm_assign(g)
    \/ \E g \in Gens : stream_open(g)
    \/ \E g \in Gens, content \in AgentChunkInputs : stream_chunk(g, content)
    \/ \E g \in Gens : stream_end(g)
    \/ \E g \in Gens : extend_history(g)
    \/ \E g \in Gens : store_history(g)
    \/ \E g \in Gens : trace(g)
    \/ \E g \in Gens : send_done(g)
    \/ \E g \in Gens : send_error(g)

AgentNext ==
    \/ StreamBegin
    \/ AgentStep
    \/ reset_chat(AgentSession)
    \/ \E message \in MessageInputs : chat(AgentSession, message)
    \/ ChatStep
AgentSpec == AgentInit /\ [][AgentNext]_vars

\* ================================================================ threads
\* app.run() serves every request on a thread of its own, and the handlers
\* take no lock: a thread may be preempted between two lines of a handler,
\* and within sessions[session_id]['events_count'] += 1 between the read of
\* the counter and the write. A task is one request thread at a line.

\* session stores a few requests leave behind: one session, the same with a
\* pending action, and the same with a second action that was acknowledged
StoreWithActions(n) ==
    LET s0 == SetKey(<< >>, 1, NewSession(1, 0))
        s1 == CreateAction(s0, 1,
                  NewAction(1, "click_button", [button_text |-> <<"Send Test Event">>], 0), 0)
        s2 == CreateAction(s1, 1,
                  Acknowledge(NewAction(2, "click_button",
                      [button_text |-> <<"Send Test Event">>], 0), "executed", 0), 0)
    IN IF n = 0 THEN s0 ELSE IF n = 1 THEN s1 ELSE s2

\* the state after start_session (n = 0), then agent_action_webhook (n = 1),
\* then a second agent_action_webhook and action_ack of its action (n = 2)
TaskInit ==
    /\ \E n \in 0..2 :
        /\ sessions = StoreWithActions(n)
        /\ action_uuids = n
        /\ ops = IF n = 2 THEN 4 ELSE n + 1
        /\ executed_acks = IF n = 2 THEN {2} ELSE {}
        /\ resp = IF n = 0
                  THEN [op |-> "start_session", code |-> 200,
                        status |-> "success", session_id |-> 1]
                  ELSE IF n = 1
                  THEN [op |-> "agent_action", session_id |-> 1, code |-> 200,
                        status |-> "received", action_id |-> 1]
                  ELSE [op |-> "action_ack", session_id |-> 1, action_id |-> 2,
                        code |-> 200, status |-> "ok"]
    /\ now = 0
    /\ session_uuids = 1
    /\ ended = {}
    /\ langfuse_enabled = FALSE
    /\ turn = Idle
    /\ conversations = << >>
    /\ lists = << >>
    /\ tasks = <<>>
    /\ gateway = [pc |-> "idle"]

\* the session ids of the requests: the live session, an id never issued
TaskSessionInputs == {1, UnknownId}

\* a request arrives and its thread starts at the first line of the handler
spawn(kind, session_id, event, page) ==
    /\ Len(tasks) < MaxTasks
    /\ tasks' = Append(tasks,
           [kind |-> kind, pc |-> "check", session_id |-> session_id,
            event |-> event, page |-> page,
            pending0 |-> PendingActions(sessions, session_id)])
    /\ UNCHANGED <<store_vars, agent_vars, gateway>>

\* the thread answers: a response of the handler, or Flask's 500 for an
\* exception the handler does not catch
Answer(task, code, body) == [pc |-> "done", code |-> code, body |-> body] @@ task

\* get_pending_actions, line 184: if not session_id or session_id not in sessions
poll_check(i) ==
    /\ tasks[i]["kind"] = "poll" /\ tasks[i]["pc"] = "check"
    /\ tasks' = [tasks EXCEPT ![i] =
          IF @["session_id"] = NoId \/ @["session_id"] \notin DOMAIN sessions
          THEN Answer(@, 200, <<>>)
          ELSE [pc |-> "lookup"] @@ @]
    /\ UNCHANGED <<store_vars, agent_vars, gateway>>

\* get_pending_actions, line 187: actions = sessions[session_id]['actions']
\* (a KeyError when the session was deleted since line 184)
poll_lookup(i) ==
    /\ tasks[i]["kind"] = "poll" /\ tasks[i]["pc"] = "lookup"
    /\ tasks' = [tasks EXCEPT ![i] =
          IF @["session_id"] \notin DOMAIN sessions
          THEN Answer(@, 500, <<>>)
          ELSE [pc |-> "filter"] @@ @]
    /\ UNCHANGED <<store_vars, agent_vars, gateway>>

\* the dict sessions[session_id]['actions'] a thread holds: the session's own
\* while it is stored, and the dict as the holders left it when the session
\* was deleted afterwards (a session is deleted whole and its id is not
\* issued again)
HeldActions(task) ==
    IF task["session_id"] \in DOMAIN sessions
    THEN sessions[task["session_id"]]["actions"]
    ELSE task["orphan"]

\* get_pending_actions, line 190: actions.values() and its iterator, which
\* notes the size of the dict
poll_iter_begin(i) ==
    /\ tasks[i]["kind"] = "poll" /\ tasks[i]["pc"] = "filter"
    /\ tasks' = [tasks EXCEPT ![i] =
          [pc |-> "iter", size |-> Len(HeldActions(@)), next |-> 1,
           picked |-> <<>>] @@ @]
    /\ UNCHANGED <<store_vars, agent_vars, gateway>>

\* get_pending_actions, lines 189-192: the iterator is asked for the next
\* value. It raises RuntimeError (dictionary changed size during iteration)
\* when a key was added since line 190, which Flask answers with 500;
\* otherwise the entry is kept if its status is 'pending' now, and after the
\* last entry the list is complete. The list refers to the action dicts
poll_iter(i) ==
    /\ tasks[i]["kind"] = "poll" /\ tasks[i]["pc"] = "iter"
    /\ LET actions == HeldActions(tasks[i]) IN
       tasks' = [tasks EXCEPT ![i] =
          IF Len(actions) # @["size"]
          THEN Answer(@, 500, <<>>)
          ELSE IF @["next"] <= @["size"]
          THEN [next |-> @["next"] + 1,
                picked |-> IF IsPending(actions[@["next"]])
                           THEN Append(@["picked"], actions[@["next"]]["action_id"])
                           ELSE @["picked"]] @@ @
          ELSE [pc |-> "respond"] @@ @]
    /\ UNCHANGED <<store_vars, agent_vars, gateway>>

\* get_pending_actions, line 194: jsonify writes the action dicts of the list
\* as they are now
poll_respond(i) ==
    /\ tasks[i]["kind"] = "poll" /\ tasks[i]["pc"] = "respond"
    /\ LET actions == HeldActions(tasks[i]) IN
       tasks' = [tasks EXCEPT ![i] =
          Answer(@, 200, [k \in 1..Len(@["picked"]) |->
                             actions[ActionIndex(actions, @["picked"][k])]])]
    /\ UNCHANGED <<store_vars, agent_vars, gateway>>

\* end_session, line 123: if session_id not in sessions
end_check(i) ==
    /\ tasks[i]["kind"] = "end" /\ tasks[i]["pc"] = "check"
    /\ tasks' = [tasks EXCEPT ![i] =
          IF @["session_id"] \notin DOMAIN sessions
          THEN Answer(@, 404, <<>>)
          ELSE [pc |-> "del"] @@ @]
    /\ UNCHANGED <<store_vars, agent_vars, gateway>>

\* the thread is past actions = sessions[session_id]['actions'] (line 187 of
\* get_pending_actions, line 209 of action_ack) and holds that dict
Holds(task) ==
    \/ task["kind"] = "poll" /\ task["pc"] \in {"filter", "iter", "respond"}
    \/ task["kind"] = "ack" /\ task["pc"] \in {"find", "status", "stamp"}

\* the threads that hold the actions dict of a session keep it when the
\* session is deleted, and share it
Orphaned(ts, session_id, actions) ==
    [j \in 1..Len(ts) |->
        IF ts[j]["session_id"] = session_id /\ Holds(ts[j])
        THEN [orphan |-> actions] @@ ts[j]
        ELSE ts[j]]

\* end_session, lines 126-127: del sessions[session_id]
\* (a KeyError when another thread deleted the session since line 123)
end_del(i) ==
    /\ tasks[i]["kind"] = "end" /\ tasks[i]["pc"] = "del"
    /\ LET session_id == tasks[i]["session_id"] IN
       IF session_id \notin DOMAIN sessions
       THEN /\ tasks' = [tasks EXCEPT ![i] = Answer(@, 500, <<>>)]
            /\ UNCHANGED <<sessions, ended>>
       ELSE /\ tasks' = [Orphaned(tasks, session_id,
                                  sessions[session_id]["actions"])
                            EXCEPT ![i] = Answer(@, 200, <<>>)]
            /\ sessions' = DelKey(sessions, session_id)
            /\ ended' = ended \cup {session_id}
    /\ UNCHANGED <<now, session_uuids, action_uuids, resp, executed_acks, ops,
                   agent_vars, gateway>>

\* events, line 137: if session_id in sessions
events_check(i) ==
    /\ tasks[i]["kind"] = "events" /\ tasks[i]["pc"] = "check"
    /\ tasks' = [tasks EXCEPT ![i] =
          IF @["session_id"] \in DOMAIN sessions
          THEN [pc |-> "read"] @@ @
          ELSE Answer(@, 200, <<>>)]
    /\ UNCHANGED <<store_vars, agent_vars, gateway>>

\* events, line 138: sessions[session_id] (a KeyError when the session was
\* deleted since line 137) and the read of its 'events_count'
events_read(i) ==
    /\ tasks[i]["kind"] = "events" /\ tasks[i]["pc"] = "read"
    /\ tasks' = [tasks EXCEPT ![i] =
          IF @["session_id"] \notin DOMAIN sessions
          THEN Answer(@, 500, <<>>)
          ELSE [pc |-> "write",
                events_count |-> sessions[@["session_id"]]["events_count"]] @@ @]
    /\ UNCHANGED <<store_vars, agent_vars, gateway>>

\* events, line 138: the write of the value read plus one, into the session
\* dict the thread holds (which is no longer stored once the session is
\* deleted)
events_write(i) ==
    /\ tasks[i]["kind"] = "events" /\ tasks[i]["pc"] = "write"
    /\ LET task == tasks[i] IN
       sessions' = IF task["session_id"] \in DOMAIN sessions
                   THEN [sessions EXCEPT ![task["session_id"]]["events_count"] =
                            task["events_count"] + 1]
                   ELSE sessions
    /\ tasks' = [tasks EXCEPT ![i] = [pc |-> "activity"] @@ @]
    /\ UNCHANGED <<now, session_uuids, action_uuids, resp, ended, executed_acks,
                   ops, agent_vars, gateway>>

\* events, line 139: sessions[session_id]['last_activity'] = now
events_activity(i) ==
    /\ tasks[i]["kind"] = "events" /\ tasks[i]["pc"] = "activity"
    /\ LET session_id == tasks[i]["session_id"] IN
       IF session_id \notin DOMAIN sessions
       THEN /\ tasks' = [tasks EXCEPT ![i] = Answer(@, 500, <<>>)]
            /\ UNCHANGED sessions
       ELSE /\ tasks' = [tasks EXCEPT ![i] = [pc |-> "page"] @@ @]
            /\ sessions' = [sessions EXCEPT ![session_id]["last_activity"] = now]
    /\ UNCHANGED <<now, session_uuids, action_uuids, resp, ended, executed_acks,
                   ops, agent_vars, gateway>>

\* events, lines 141-146: the page of a page_view event is appended to
\* sessions[session_id]['pages_viewed'], and the response
events_page(i) ==
    /\ tasks[i]["kind"] = "events" /\ tasks[i]["pc"] = "page"
    /\ LET task == tasks[i]
           session_id == task["session_id"]
       IN IF task["event"] = "page_view" /\ task["page"] # ""
          THEN IF session_id \notin DOMAIN sessions
               THEN /\ tasks' = [tasks EXCEPT ![i] = Answer(@, 500, <<>>)]
                    /\ UNCHANGED sessions
               ELSE /\ tasks' = [tasks EXCEPT ![i] = Answer(@, 200, <<>>)]
                    /\ sessions' = [sessions EXCEPT ![session_id]["pages_viewed"] =
                                       Append(@, task["page"])]
          ELSE /\ tasks' = [tasks EXCEPT ![i] = Answer(@, 200, <<>>)]
               /\ UNCHANGED sessions
    /\ UNCHANGED <<now, session_uuids, action_uuids, resp, ended, executed_acks,
                   ops, agent_vars, gateway>>

\* agent_action_webhook, line 156:
\* if not session_id or session_id not in sessions
create_check(i) ==
    /\ tasks[i]["kind"] = "create" /\ tasks[i]["pc"] = "check"
    /\ tasks' = [tasks EXCEPT ![i] =
          IF @["session_id"] = NoId \/ @["session_id"] \notin DOMAIN sessions
          THEN Answer(@, 400, <<>>)
          ELSE [pc |-> "build"] @@ @]
    /\ UNCHANGED <<store_vars, agent_vars, gateway>>

\* agent_action_webhook, lines 159-167: the uuid and the action dict
create_build(i) ==
    /\ tasks[i]["kind"] = "create" /\ tasks[i]["pc"] = "build"
    /\ tasks' = [tasks EXCEPT ![i] =
          [pc |-> "store",
           action |-> NewAction(action_uuids + 1, "click_button",
                          [button_text |-> <<"Send Test Event">>], now)] @@ @]
    /\ action_uuids' = action_uuids + 1
    /\ UNCHANGED <<sessions, now, session_uuids, resp, ended, executed_acks, ops,
                   agent_vars, gateway>>

\* agent_action_webhook, line 169:
\* sessions[session_id]['actions'][action_id] = action
\* (a KeyError when the session was deleted since line 156)
create_store(i) ==
    /\ tasks[i]["kind"] = "create" /\ tasks[i]["pc"] = "store"
    /\ LET session_id == tasks[i]["session_id"] IN
       IF session_id \notin DOMAIN sessions
       THEN /\ tasks' = [tasks EXCEPT ![i] = Answer(@, 500, <<>>)]
            /\ UNCHANGED sessions
       ELSE /\ tasks' = [tasks EXCEPT ![i] = [pc |-> "stamp"] @@ @]
            /\ sessions' = [sessions EXCEPT ![session_id]["actions"] =
                               Append(@, tasks[i]["action"])]
    /\ UNCHANGED <<now, session_uuids, action_uuids, resp, ended, executed_acks,
                   ops, agent_vars, gateway>>

\* agent_action_webhook, lines 170-175:
\* sessions[session_id]['last_agent_action'] = now, and the response
create_stamp(i) ==
    /\ tasks[i]["kind"] = "create" /\ tasks[i]["pc"] = "stamp"
    /\ LET session_id == tasks[i]["session_id"] IN
       IF session_id \notin DOMAIN sessions
       THEN /\ tasks' = [tasks EXCEPT ![i] = Answer(@, 500, <<>>)]
            /\ UNCHANGED sessions
       ELSE /\ tasks' = [tasks EXCEPT ![i] =
                  Answer(@, 200, <<@["action"]["action_id"]>>)]
            /\ sessions' = [sessions EXCEPT ![session_id]["last_agent_action"] =
                               Some(now)]
    /\ UNCHANGED <<now, session_uuids, action_uuids, resp, ended, executed_acks,
                   ops, agent_vars, gateway>>

\* POST /webhook/action-ack arrives, lines 201-204: the body is read and
\* status = data.get('status', 'executed')
spawn_ack(session_id, action_id, status_arg) ==
    /\ Len(tasks) < MaxTasks
    /\ tasks' = Append(tasks,
           [kind |-> "ack", pc |-> "check", session_id |-> session_id,
            action_id |-> action_id, status |-> AckStatus(status_arg)])
    /\ UNCHANGED <<store_vars, agent_vars, gateway>>

\* action_ack, lines 206-207: if session_id not in sessions
ack_check(i) ==
    /\ tasks[i]["kind"] = "ack" /\ tasks[i]["pc"] = "check"
    /\ tasks' = [tasks EXCEPT ![i] =
          IF @["session_id"] \notin DOMAIN sessions
          THEN Answer(@, 400, <<>>)
          ELSE [pc |-> "lookup"] @@ @]
    /\ UNCHANGED <<store_vars, agent_vars, gateway>>

\* action_ack, line 209: actions = sessions[session_id]['actions']
\* (a KeyError when the session was deleted since line 206)
ack_lookup(i) ==
    /\ tasks[i]["kind"] = "ack" /\ tasks[i]["pc"] = "lookup"
    /\ tasks' = [tasks EXCEPT ![i] =
          IF @["session_id"] \notin DOMAIN sessions
          THEN Answer(@, 500, <<>>)
          ELSE [pc |-> "find"] @@ @]
    /\ UNCHANGED <<store_vars, agent_vars, gateway>>

\* action_ack, lines 211-212: if action_id not in actions
ack_find(i) ==
    /\ tasks[i]["kind"] = "ack" /\ tasks[i]["pc"] = "find"
    /\ tasks' = [tasks EXCEPT ![i] =
          IF ~HasAction(HeldActions(@), @["action_id"])
          THEN Answer(@, 404, <<>>)
          ELSE [pc |-> "status"] @@ @]
    /\ UNCHANGED <<store_vars, agent_vars, gateway>>

\* thread i writes key := value into actions[action_id] of the dict it holds
\* and goes on as next: the session's dict while the session is stored, the
\* dict the holders share once it is deleted
WriteHeld(i, key, value, next) ==
    LET task == tasks[i]
        session_id == task["session_id"]
        actions == HeldActions(task)
        written == [actions EXCEPT ![ActionIndex(actions, task["action_id"])] =
                       SetKey(@, key, value)]
    IN IF session_id \in DOMAIN sessions
       THEN /\ sessions' = [sessions EXCEPT ![session_id]["actions"] = written]
            /\ tasks' = [tasks EXCEPT ![i] = next]
       ELSE /\ sessions' = sessions
            /\ tasks' = [Orphaned(tasks, session_id, written) EXCEPT
                            ![i] = [orphan |-> written] @@ next]

\* action_ack, line 214: actions[action_id]['status'] = status
ack_status(i) ==
    /\ tasks[i]["kind"] = "ack" /\ tasks[i]["pc"] = "status"
    /\ WriteHeld(i, "status", tasks[i]["status"], [pc |-> "stamp"] @@ tasks[i])
    /\ executed_acks' = IF tasks[i]["status"] = "executed"
                        THEN executed_acks \cup {tasks[i]["action_id"]}
                        ELSE executed_acks
    /\ UNCHANGED <<now, session_uuids, action_uuids, resp, ended, ops,
                   agent_vars, gateway>>

\* action_ack, lines 215-217: actions[action_id]['executed_at'] = now, and
\* the response
ack_stamp(i) ==
    /\ tasks[i]["kind"] = "ack" /\ tasks[i]["pc"] = "stamp"
    /\ WriteHeld(i, "executed_at", now, Answer(tasks[i], 200, <<>>))
    /\ UNCHANGED <<now, session_uuids, action_uuids, resp, ended, executed_acks,
                   ops, agent_vars, gateway>>

\* the action ids and status values of the /webhook/action-ack requests
TaskActionInputs == {1, 2, UnknownId}
TaskStatusInputs == {"absent", "failed"}

\* the request threads of the web app, served concurrently
RaceNext ==
    \/ \E kind \in {"poll", "end", "create"}, session_id \in TaskSessionInputs :
          spawn(kind, session_id, "", "")
    \/ \E session_id \in TaskSessionInputs, event \in EventInputs, page \in PageInputs :
          spawn("events", session_id, event, page)
    \/ \E session_id \in TaskSessionInputs, action_id \in TaskActionInputs,
          status \in TaskStatusInputs :
          spawn_ack(session_id, action_id, status)
    \/ \E i \in 1..Len(tasks) : poll_check(i)
    \/ \E i \in 1..Len(tasks) : poll_lookup(i)
    \/ \E i \in 1..Len(tasks) : poll_iter_begin(i)
    \/ \E i \in 1..Len(tasks) : poll_iter(i)
    \/ \E i \in 1..Len(tasks) : poll_respond(i)
    \/ \E i \in 1..Len(tasks) : end_check(i)
    \/ \E i \in 1..Len(tasks) : end_del(i)
    \/ \E i \in 1..Len(tasks) : events_check(i)
    \/ \E i \in 1..Len(tasks) : events_read(i)
    \/ \E i \in 1..Len(tasks) : events_write(i)
    \/ \E i \in 1..Len(tasks) : events_activity(i)
    \/ \E i \in 1..Len(tasks) : events_page(i)
    \/ \E i \in 1..Len(tasks) : create_check(i)
    \/ \E i \in 1..Len(tasks) : create_build(i)
    \/ \E i \in 1..Len(tasks) : create_store(i)
    \/ \E i \in 1..Len(tasks) : create_stamp(i)
    \/ \E i \in 1..Len(tasks) : ack_check(i)
    \/ \E i \in 1..Len(tasks) : ack_lookup(i)
    \/ \E i \in 1..Len(tasks) : ack_find(i)
    \/ \E i \in 1..Len(tasks) : ack_status(i)
    \/ \E i \in 1..Len(tasks) : ack_stamp(i)

RaceSpec == TaskInit /\ [][RaceNext]_vars

\* /events requests served concurrently on a session that stays alive
EventsNext ==
    \/ \E session_id \in TaskSessionInputs, event \in EventInputs, page \in PageInputs :
          spawn("events", session_id, event, page)
    \/ \E i \in 1..Len(tasks) : events_check(i)
    \/ \E i \in 1..Len(tasks) : events_read(i)
    \/ \E i \in 1..Len(tasks) : events_write(i)
    \/ \E i \in 1..Len(tasks) : events_activity(i)
    \/ \E i \in 1..Len(tasks) : events_page(i)

EventsSpec == TaskInit /\ [][EventsNext]_vars

\* ================================================================ gateway
\* POST /agent/chat/stream: the web app posts the request to the agent's
\* /chat/stream and forwards the lines of the response as they arrive.

\* the pieces of a string on the wire: literal text, and the one-line JSON
\* text that json.dumps makes of a frame (line breaks inside are escaped)
Text(t) == [text |-> t]
Json(frame) == [json |-> frame]
Newline == Text("\n")

\* f"data: {json.dumps(frame)}\n\n", the string the agent's generator yields
Sse(frame) == <<Text("data: "), Json(frame), Newline, Newline>>

RECURSIVE Wire(_)
\* the body of the agent's response so far
Wire(frames) ==
    IF frames = <<>> THEN <<>> ELSE Sse(Head(frames)) \o Wire(Tail(frames))

RECURSIVE SplitLines(_, _)
\* resp.iter_lines(): the complete lines of the body, terminators removed;
\* the text after the last terminator stays pending
SplitLines(body, pending) ==
    IF body = <<>> THEN <<>>
    ELSE IF Head(body) = Newline
    THEN <<pending>> \o SplitLines(Tail(body), <<>>)
    ELSE SplitLines(Tail(body), Append(pending, Head(body)))

\* str(e) of the RequestException
GatewayErrorText == <<"upstream unavailable">>

\* http_requests.post(url, json=data, stream=True, timeout=60) returned the
\* response of the turn that is running
gateway_connect ==
    /\ gateway["pc"] = "idle"
    /\ turn["pc"] # "idle"
    /\ gateway' = [pc |-> "reading", read |-> 0, sent |-> <<>>, failed |-> FALSE]
    /\ UNCHANGED <<store_vars, agent_vars, tasks>>

\* a loop that forwards every line, the empty ones included
gateway_line_unfiltered ==
    /\ gateway["pc"] = "reading"
    /\ LET lines == SplitLines(Wire(turn["frames"]), <<>>) IN
        /\ gateway["read"] < Len(lines)
        /\ gateway' = [read |-> gateway["read"] + 1,
                       sent |-> Append(gateway["sent"],
                                   lines[gateway["read"] + 1] \o <<Newline, Newline>>)]
                      @@ gateway
    /\ UNCHANGED <<store_vars, agent_vars, tasks>>

\* one iteration of: for line in resp.iter_lines():
\*     if line: yield line.decode('utf-8') + '\n\n'
gateway_line ==
    /\ gateway["pc"] = "reading"
    /\ LET lines == SplitLines(Wire(turn["frames"]), <<>>) IN
        /\ gateway["read"] < Len(lines)
        /\ LET line == lines[gateway["read"] + 1] IN
           gateway' = [read |-> gateway["read"] + 1,
                       sent |-> IF Len(line) > 0
                                THEN Append(gateway["sent"], line \o <<Newline, Newline>>)
                                ELSE gateway["sent"]] @@ gateway
    /\ UNCHANGED <<store_vars, agent_vars, tasks>>

\* the agent closed the response and every line was read
gateway_end ==
    /\ gateway["pc"] = "reading"
    /\ turn["pc"] = "closed"
    /\ gateway["read"] = Len(SplitLines(Wire(turn["frames"]), <<>>))
    /\ gateway' = [pc |-> "closed"] @@ gateway
    /\ UNCHANGED <<store_vars, agent_vars, tasks>>

\* except RequestException: the connection failed, or no byte arrived for
\* 60 seconds, before the request was answered or while the body was read
gateway_fail ==
    /\ \/ gateway["pc"] = "idle" /\ turn["pc"] = "idle"
       \/ gateway["pc"] = "reading"
    /\ gateway' = [pc |-> "closed",
                   read |-> IF "read" \in DOMAIN gateway THEN gateway["read"] ELSE 0,
                   sent |-> Append(IF "sent" \in DOMAIN gateway
                                   THEN gateway["sent"] ELSE <<>>,
                                   Sse(ErrorFrame(GatewayErrorText))),
                   failed |-> TRUE]
    /\ UNCHANGED <<store_vars, agent_vars, tasks>>

GatewayStep == gateway_connect \/ gateway_line \/ gateway_end \/ gateway_fail

\* a chat_stream turn of a session without history, read through the gateway
GatewayInit == TurnInit /\ conversations = << >>
GatewayNext == TurnBegin \/ TurnStep \/ GatewayStep
GatewaySpec == GatewayInit /\ [][GatewayNext]_vars

\* ================================================================ claims
\* the web app served a request in this step (every handler writes resp)
Served(op) == resp'["op"] = op /\ (resp' # resp \/ sessions' # sessions)

\* the actions of a live session that were already acknowledged
Acked(action) == "executed_at" \in DOMAIN action

\* ---------------------------------------------------------------- C1
\* C1: create followed by acknowledge(sessionId, actionId, "executed")
\* leaves the action's status equal to executed, and any further
\* acknowledge call on that same action is rejected with an error and leaves
\* the action's status and executedAt unchanged.
C1_Step ==
    \A s \in DOMAIN sessions : \A i \in 1..Len(sessions[s]["actions"]) :
        LET a == sessions[s]["actions"][i]
            acks == /\ Served("action_ack")
                    /\ resp'["session_id"] = s
                    /\ resp'["action_id"] = a["action_id"]
        IN /\ (~Acked(a) /\ acks /\ a["action_id"] \in executed_acks')
                => sessions'[s]["actions"][i]["status"] = "executed"
           /\ (Acked(a) /\ acks)
                => /\ resp'["code"] # 200
                   /\ sessions'[s]["actions"][i] = a
C1_SecondAckRejected == [][C1_Step]_vars

\* ---------------------------------------------------------------- C2
\* C2: every action's status is one of pending, executed, failed, and the
\* only status changes that ever occur are pending -> executed and
\* pending -> failed: an action that has left pending never changes status
\* again and never returns to pending.
C2_StatusInSet ==
    \A s \in DOMAIN sessions : \A i \in 1..Len(sessions[s]["actions"]) :
        sessions[s]["actions"][i]["status"] \in Statuses
C2_Forward ==
    \A s \in DOMAIN sessions \cap DOMAIN sessions' :
        \A i \in 1..Len(sessions[s]["actions"]) :
            LET before == sessions[s]["actions"][i]["status"]
                after == sessions'[s]["actions"][i]["status"]
            IN after # before => before = "pending" /\ after \in {"executed", "failed"}
C2_StatusMachine == []C2_StatusInSet /\ [][C2_Forward]_vars

\* ---------------------------------------------------------------- C6
\* C6: after end(sessionId) succeeds the session and every action it held
\* are gone: every later acknowledge on that session id fails with the
\* unknown-session error, every later create on it fails, and a
\* pending-actions poll for it returns no actions.
C6_EndedSessionGone ==
    /\ ended \cap DOMAIN sessions = {}
    /\ (resp["op"] = "action_ack" /\ resp["session_id"] \in ended)
          => resp["code"] = 400 /\ resp["message"] = "Invalid session"
    /\ (resp["op"] = "agent_action" /\ resp["session_id"] \in ended)
          => resp["code"] = 400 /\ "action_id" \notin DOMAIN resp
    /\ (resp["op"] = "pending_actions" /\ resp["session_id"] \in ended)
          => resp["actions"] = <<>>

\* an acknowledge of an action that the ended session held was refused
C6_Witness ==
    /\ resp["op"] = "action_ack"
    /\ resp["session_id"] \in ended
    /\ resp["action_id"] \in 1..action_uuids
    /\ resp["code"] = 400

\* ---------------------------------------------------------------- C7
\* C7: the list returned by a pending-actions poll contains only actions of
\* the polled session whose status is pending; no action with any other
\* status is ever returned, whichever requests are served next to the poll.
C7_PollOnlyPending ==
    \A i \in 1..Len(tasks) :
        (tasks[i]["kind"] = "poll" /\ tasks[i]["pc"] = "done"
            /\ tasks[i]["code"] = 200) =>
        \A k \in 1..Len(tasks[i]["body"]) :
            tasks[i]["body"][k]["status"] = "pending"

\* ---------------------------------------------------------------- C8
\* C8: from its creation until its first acknowledgment an action is
\* returned with status pending by every pending-actions poll on its live
\* session; once action-ack with status executed has been applied to it, no
\* later pending-actions poll ever returns it again, whatever calls follow.
C8_PollUntilExecuted ==
    (resp["op"] = "pending_actions" /\ resp["session_id"] \in DOMAIN sessions) =>
        /\ \A j \in 1..Len(sessions[resp["session_id"]]["actions"]) :
              LET a == sessions[resp["session_id"]]["actions"][j] IN
              ~Acked(a) =>
                  \E i \in 1..Len(resp["actions"]) :
                      resp["actions"][i] = a /\ a["status"] = "pending"
        /\ \A i \in 1..Len(resp["actions"]) :
              resp["actions"][i]["action_id"] \notin executed_acks

\* ---------------------------------------------------------------- C9
\* C9: an action's createdAt is assigned at creation and never changes; its
\* executedAt is absent while the action has never been acknowledged, is
\* assigned by the first successful acknowledgment, and keeps that value
\* under every later call, including repeated acknowledge calls.
C9_Step ==
    \A s \in DOMAIN sessions \cap DOMAIN sessions' :
        \A i \in 1..Len(sessions[s]["actions"]) :
            LET before == sessions[s]["actions"][i]
                after == sessions'[s]["actions"][i]
            IN /\ after["created_at"] = before["created_at"]
               /\ Acked(before) =>
                     Acked(after) /\ after["executed_at"] = before["executed_at"]
               /\ (~Acked(before) /\ Acked(after)) =>
                     /\ Served("action_ack")
                     /\ resp'["code"] = 200
                     /\ after["executed_at"] = now
C9_TimestampsSetOnce == [][C9_Step]_vars

\* ---------------------------------------------------------------- frames
IsDone(frame) == "done" \in DOMAIN frame
IsError(frame) == "error" \in DOMAIN frame
IsTerminal(frame) == IsDone(frame) \/ IsError(frame)
IsChunk(frame) == "chunk" \in DOMAIN frame
IsAction(frame) == "action" \in DOMAIN frame
IsClick(tool_call) == tool_call["name"] = "click_button"

\* the stored conversation history of a session
StoredHistory(session_id) ==
    IF session_id \in DOMAIN conversations
    THEN lists[conversations[session_id]]
    ELSE <<>>

\* ---------------------------------------------------------------- C3
\* C3: whatever the model returns or whichever step raises, the sequence of
\* frames of a chat-stream turn eventually ends, contains exactly one
\* terminal frame (Done or Error), never both and never none, and that
\* terminal frame is the last frame of the turn.
C3_Terminal ==
    LET frames == turn["frames"]
        terminals == {i \in 1..Len(frames) : IsTerminal(frames[i])}
    IN IF turn["pc"] = "closed"
       THEN terminals = {Len(frames)} /\ Len(frames) > 0
       ELSE terminals = {}
C3_OneTerminalFrame ==
    []C3_Terminal /\ ((turn["pc"] # "idle") ~> (turn["pc"] = "closed"))

\* a turn that streamed text, raised, and ended with the Error frame
C3_Witness ==
    /\ turn["pc"] = "closed"
    /\ Len(turn["frames"]) > 1
    /\ IsChunk(turn["frames"][1])
    /\ IsError(turn["frames"][Len(turn["frames"])])

\* ---------------------------------------------------------------- C4
\* C4: whenever a chat-stream turn ends with an Error frame, no matter in
\* which step the exception was raised (model call, streaming, action
\* dispatch, history update, tracing report), the stored conversation
\* history of that session contains exactly the messages it contained when
\* the turn began.
C4_ErrorKeepsHistory ==
    (turn["pc"] = "closed" /\ IsError(turn["frames"][Len(turn["frames"])]))
        => StoredHistory(turn["session_id"]) = turn["history0"]

\* ---------------------------------------------------------------- C5
\* C5: each click_button invocation of a turn results in exactly one new
\* Action with status pending in the Session Store entry of the turn's
\* session and in exactly one ActionEvent frame, whether or not the request
\* carried a webhook URL and whether or not webhook delivery succeeded.
C5_OneActionPerInvocation ==
    (turn["pc"] = "closed" /\ "tool_calls" \in DOMAIN turn
        /\ turn["session_id"] \in DOMAIN sessions) =>
        LET clicks == SelectSeq(turn["tool_calls"], IsClick)
            action_frames == SelectSeq(turn["frames"], IsAction)
            actions == sessions[turn["session_id"]]["actions"]
        IN /\ Len(action_frames) = Len(clicks)
           /\ Len(actions) = Len(clicks)
           /\ \A i \in 1..Len(actions) :
                 /\ actions[i]["status"] = "pending"
                 /\ actions[i]["type"] = "click_button"
                 /\ actions[i]["payload"]["button_text"] = action_frames[i]["button_text"]

\* ---------------------------------------------------------------- C10
\* C10: a turn whose model response contains only text emits no ActionEvent
\* frame, and a turn whose model response contains one or more tool
\* invocations emits at most one TextChunk frame, however many invocations
\* the response holds.
C10_ModesExclusive ==
    "tool_calls" \in DOMAIN turn =>
        IF Len(turn["tool_calls"]) = 0
        THEN Len(SelectSeq(turn["frames"], IsAction)) = 0
        ELSE Len(SelectSeq(turn["frames"], IsChunk)) <= 1

\* a turn that dispatched two click_button invocations and confirmed once
C10_Witness ==
    /\ turn["pc"] = "closed"
    /\ "tool_calls" \in DOMAIN turn
    /\ Len(SelectSeq(turn["tool_calls"], IsClick)) >= 2
    /\ Len(SelectSeq(turn["frames"], IsAction)) >= 2
    /\ Len(SelectSeq(turn["frames"], IsChunk)) = 1

Polls == {i \in 1..Len(tasks) : tasks[i]["kind"] = "poll" /\ tasks[i]["pc"] = "done"}

\* C11: a pending-actions poll that runs while the session is ended answers
\* with the session's complete pending list as it was before the end, or with
\* the empty unknown-session result; it never fails with an internal error.
C11_PollSeesAllOrNothing ==
    (\A j \in 1..Len(tasks) : tasks[j]["kind"] \in {"poll", "end"}) =>
        \A i \in Polls :
            /\ tasks[i]["code"] = 200
            /\ tasks[i]["body"] \in {tasks[i]["pending0"], <<>>}

EventsDone(session_id) ==
    {i \in 1..Len(tasks) : /\ tasks[i]["kind"] = "events"
                           /\ tasks[i]["pc"] = "done"
                           /\ tasks[i]["session_id"] = session_id}

EventsInFlight ==
    {i \in 1..Len(tasks) : tasks[i]["kind"] = "events" /\ tasks[i]["pc"] # "done"}

\* C15: on a session that stays alive, events_count equals the number of
\* /events requests completed on it, however their reads and writes of the
\* counter interleave.
C15_NoLostIncrement ==
    EventsInFlight = {} =>
        \A session_id \in DOMAIN sessions :
            sessions[session_id]["events_count"] =
                Cardinality(EventsDone(session_id))

\* the sessions whose action map has the key action_id
Holders(store, action_id) ==
    {s \in DOMAIN store : HasAction(store[s]["actions"], action_id)}

ActionIds(store) ==
    UNION {{store[s]["actions"][i]["action_id"] : i \in 1..Len(store[s]["actions"])} :
           s \in DOMAIN store}

\* a key of the action map of one session, once
C12_OneHolder ==
    \A action_id \in ActionIds(sessions) :
        /\ Cardinality(Holders(sessions, action_id)) = 1
        /\ \A s \in Holders(sessions, action_id) :
              Cardinality({i \in 1..Len(sessions[s]["actions"]) :
                  sessions[s]["actions"][i]["action_id"] = action_id}) = 1

C12_Step ==
    /\ sessions' # sessions =>
          \A action_id \in ActionIds(sessions') :
              \* never moved or copied
              /\ action_id \in ActionIds(sessions) =>
                    Holders(sessions', action_id) = Holders(sessions, action_id)
              \* filed under the session named in its create call
              /\ action_id \notin ActionIds(sessions) =>
                    /\ Served("agent_action")
                    /\ resp'["code"] = 200
                    /\ resp'["action_id"] = action_id
                    /\ Holders(sessions', action_id) = {resp'["session_id"]}
    /\ (/\ Served("action_ack")
        /\ resp'["session_id"] \in DOMAIN sessions
        /\ Holders(sessions, resp'["action_id"]) # {}
        /\ resp'["session_id"] \notin Holders(sessions, resp'["action_id"]))
       => /\ resp'["code"] = 404
          /\ resp'["message"] = "Unknown action"
          /\ sessions' = sessions

\* C12: each action id is a key of the action map of exactly one session, the
\* one named in its create call; no call moves or copies it, and an
\* acknowledge naming a different live session fails with "Unknown action"
\* and leaves every action unchanged.
C12_ActionInOneSession == []C12_OneHolder /\ [][C12_Step]_vars

C12_Witness ==
    /\ resp["op"] = "action_ack"
    /\ resp["code"] = 404
    /\ resp["session_id"] \in DOMAIN sessions
    /\ Holders(sessions, resp["action_id"]) # {}

InvalidSession(store, session_id) == session_id = NoId \/ session_id \notin DOMAIN store

C13_Step ==
    (Served("agent_action") /\ InvalidSession(sessions, resp'["session_id"]))
    => /\ resp'["code"] = 400
       /\ resp'["message"] = "Invalid session"
       /\ "action_id" \notin DOMAIN resp'
       /\ sessions' = sessions
       /\ action_uuids' = action_uuids

\* C13: POST /webhook/agent-action with a missing session id or one that is
\* not in the store answers 400 "Invalid session", returns no action id and
\* leaves the store unchanged.
C13_CreateNeedsSession == [][C13_Step]_vars

C13_Witness ==
    /\ resp["op"] = "agent_action"
    /\ resp["code"] = 400
    /\ resp["session_id"] \in ended \cup {NoId}
    /\ \E s \in DOMAIN sessions : Len(sessions[s]["actions"]) > 0

C14_Step ==
    (Served("events") /\ resp'["session_id"] \notin DOMAIN sessions)
    => /\ resp'["code"] = 200
       /\ resp'["status"] = "success"
       /\ sessions' = sessions

\* C14: POST /events with a session id that is absent from the store reports
\* success and leaves the store unchanged.
C14_EventOnAbsentSession == [][C14_Step]_vars

C14_Witness ==
    /\ resp["op"] = "events"
    /\ resp["code"] = 200
    /\ resp["session_id"] \in ended
    /\ DOMAIN sessions # {}

\* ---------------------------------------------------------------- C16
\* C16: every chat-stream turn issues exactly one call to the language model,
\* whether it streams text or dispatches actions, and emits no frame before
\* that call has returned.
C16_OneModelCall ==
    turn["pc"] # "idle" =>
        /\ turn["model_calls"] <= 1
        /\ turn["pc"] = "closed" => turn["model_calls"] = 1
        /\ Len(turn["frames"]) > 0 => turn["model_calls"] = 1

\* ---------------------------------------------------------------- C17
Clicks == SelectSeq(turn["tool_calls"], IsClick)

C17_Frames ==
    (turn["pc"] = "closed" /\ "tool_calls" \in DOMAIN turn /\ Len(Clicks) > 0) =>
        LET n == Len(Clicks)
            frames == turn["frames"]
        IN /\ Len(frames) = n + 2
           /\ \A i \in 1..n :
                 frames[i] = ActionFrame(ButtonText(Clicks[i]["args"]))
           /\ frames[n + 1] =
                 ChunkFrame(Confirmation(<<ButtonText(Clicks[1]["args"])>>))
           /\ IsDone(frames[n + 2])

C17_Step ==
    turn["pc"] \in {"dispatch", "post", "emit", "confirm", "confirmed"} =>
        turn'["pc"] # "error"

\* C17: in a dispatching turn with n click_button invocations, a webhook POST
\* that fails or times out, for any subset of the invocations, never takes the
\* generator to its except clause: the n action frames are emitted in
\* invocation order, then the one confirmation chunk, and the turn ends with
\* the done frame, not the error frame.
C17_WebhookFailureTolerated == []C17_Frames /\ [][C17_Step]_vars

\* ---------------------------------------------------------------- C18
RECURSIVE ChunksText(_)
\* the concatenation of the chunk frames of a frame sequence
ChunksText(frames) ==
    IF frames = <<>> THEN <<>>
    ELSE (IF IsChunk(Head(frames)) THEN Head(frames)["chunk"] ELSE <<>>)
            \o ChunksText(Tail(frames))

\* C18: when a turn that ran alone ends with the done frame, the stored
\* history of its session is the last 20 entries of the history before the
\* turn followed by the user message and the assistant reply, the reply being
\* the concatenation of the chunk frames of the turn; the entries evicted are
\* the oldest.
C18_HistoryWindow ==
    (turn["pc"] = "closed" /\ IsDone(turn["frames"][Len(turn["frames"])])) =>
        LET reply == ChunksText(turn["frames"])
            full == turn["history0"] \o
                        <<HumanMessage(turn["message"]), AIMessage(reply)>>
            stored == StoredHistory(turn["session_id"])
            evicted == Len(full) - Len(stored)
        IN /\ Len(stored) <= HistoryCap
           /\ evicted = (IF Len(full) > HistoryCap THEN Len(full) - HistoryCap ELSE 0)
           /\ \A i \in 1..Len(stored) : stored[i] = full[evicted + i]

\* a full window before the turn, a reply streamed in two chunks
C18_Witness ==
    /\ turn["pc"] = "closed"
    /\ IsDone(turn["frames"][Len(turn["frames"])])
    /\ Len(turn["history0"]) = HistoryCap
    /\ Len(SelectSeq(turn["frames"], IsChunk)) >= 2
    /\ StoredHistory(turn["session_id"])[1] = turn["history0"][3]

\* ---------------------------------------------------------------- C19
\* a message of a history stored before the turn
IsOld(message) == Len(message["content"]) > 0 /\ message["content"][1] = "old"

C19_Step ==
    \A session_id \in AgentSessionInputs :
        session_id \notin DOMAIN conversations =>
            \A i \in 1..Len(StoredHistory(session_id)') :
                ~IsOld(StoredHistory(session_id)'[i])

\* C19: once /chat/reset has removed a session's history, no message of that
\* history appears in the session's stored history again, also when a turn
\* that started before the reset finishes after it.
C19_ResetForgets == [][C19_Step]_vars

\* ---------------------------------------------------------------- C20
\* the strings the agent's generator has yielded in this turn
Relayed == [i \in 1..Len(turn["frames"]) |-> Sse(turn["frames"][i])]

IsPrefix(s, t) == Len(s) <= Len(t) /\ \A i \in 1..Len(s) : s[i] = t[i]

\* C20: at every moment the frames the gateway has sent to the client are a
\* prefix of the frames the agent's generator has emitted for the turn,
\* unaltered and in order, followed, only when the upstream request failed,
\* by one error frame that the gateway adds last.
C20_GatewayForwardsPrefix ==
    gateway["pc"] # "idle" =>
        LET sent == gateway["sent"] IN
        IF gateway["failed"]
        THEN /\ gateway["pc"] = "closed"
             /\ Len(sent) > 0
             /\ sent[Len(sent)] = Sse(ErrorFrame(GatewayErrorText))
             /\ IsPrefix(SubSeq(sent, 1, Len(sent) - 1), Relayed)
        ELSE IsPrefix(sent, Relayed)

\* the gateway forwarded an action, the confirmation and the done frame
C20_Witness ==
    /\ gateway["pc"] = "closed"
    /\ ~gateway["failed"]
    /\ Len(gateway["sent"]) >= 3
    /\ gateway["sent"] = Relayed
    /\ IsAction(turn["frames"][1])

====
